---- MODULE Spec2Model ----
(***************************************************************************)
(* Model of the Rust security service (src/rust-security-main.rs): the     *)
(* risk-adaptive configuration pipeline of SecurityService, the            *)
(* /fingerprint handlers and the background fingerprint rotation task.     *)
(*                                                                         *)
(* Risk scores are IEEE-754 binary64 values.  Every score the program can  *)
(* form lies in [0, 2) and is a multiple of 2^-54, so a score is held as   *)
(* the integer n with value n * 2^-54, split in two limbs of 28 bits       *)
(* ([hi, lo], n = hi * 2^28 + lo), and addition rounds to nearest, ties to *)
(* even, at the precision of the result's binade.                          *)
(***************************************************************************)
EXTENDS Integers, Sequences, FiniteSets, TLC

-----------------------------------------------------------------------------
(* Bounds of the model *)

\* rotations (completed or failed) the model lets happen in one behaviour
MaxRotations == 2
\* distinct targets one behaviour of the single-request specification scores
MaxSeqTargets == 1
\* longest proxy pool the proxy-selection specification draws
MaxPool == 2

-----------------------------------------------------------------------------
(* binary64 arithmetic on the scores *)

Limb == 2^28

F64(h, l) == [hi |-> h, lo |-> l]

\* the literals of the source, as the nearest binary64 value
F64_0_0 == F64(0, 0)
F64_0_3 == F64(20132659, 53687091)
F64_0_4 == F64(26843545, 161061274)
F64_0_5 == F64(33554432, 0)
F64_0_6 == F64(40265318, 107374182)
F64_0_7 == F64(46976204, 214748364)
F64_0_8 == F64(53687091, 53687092)
F64_0_9 == F64(60397977, 161061274)
F64_0_95 == F64(63753420, 214748364)
F64_1_0 == F64(67108864, 0)

F64Lt(a, b) == a.hi < b.hi \/ (a.hi = b.hi /\ a.lo < b.lo)
F64Gt(a, b) == F64Lt(b, a)
F64Le(a, b) == ~F64Lt(b, a)

\* f64::min and f64::max (no NaN can occur)
F64Min(a, b) == IF F64Lt(b, a) THEN b ELSE a
F64Max(a, b) == IF F64Lt(a, b) THEN b ELSE a

\* spacing of binary64 values, in units of 2^-54, in the binade of hi
Ulp(hi) == IF hi < 2^25 THEN 1
           ELSE IF hi < 2^26 THEN 2
           ELSE IF hi < 2^27 THEN 4
           ELSE 8

\* round-to-nearest, ties-to-even of the exact value hi * 2^28 + lo
F64Round(hi, lo) ==
    LET u    == Ulp(hi)
        r    == lo % u
        down == lo - r
        up   == IF 2 * r > u THEN TRUE
                ELSE IF 2 * r < u THEN FALSE
                ELSE (down \div u) % 2 = 1
        l    == IF up THEN down + u ELSE down
    IN  F64(hi + (l \div Limb), l % Limb)

\* the f64 addition of `risk_score += w`
F64Add(a, b) ==
    LET l == a.lo + b.lo
    IN  F64Round(a.hi + b.hi + (l \div Limb), l % Limb)

-----------------------------------------------------------------------------
(* str::contains and str::ends_with *)

Contains(s, sub) ==
    \E i \in 1..(Len(s) - Len(sub) + 1) : SubSeq(s, i, i + Len(sub) - 1) = sub

EndsWith(s, suf) ==
    /\ Len(s) >= Len(suf)
    /\ SubSeq(s, Len(s) - Len(suf) + 1, Len(s)) = suf

-----------------------------------------------------------------------------
(* SecurityService::assess_target_risk, the computation on a cache miss *)

CdnWeight == F64_0_3
GovWeight == F64_0_5
CaptchaWeight == F64_0_4
SocialWeight == F64_0_6

IsCdn(target) == Contains(target, "cloudflare") \/ Contains(target, "akamai")

IsGov(target) == EndsWith(target, ".gov") \/ EndsWith(target, ".mil")

IsCaptcha(target) == Contains(target, "recaptcha") \/ Contains(target, "captcha")

IsSocial(target) ==
    \/ Contains(target, "facebook") \/ Contains(target, "twitter")
    \/ Contains(target, "linkedin") \/ Contains(target, "instagram")

\* the clamp without its upper bound
Clamp_NoMin(x) == F64Max(x, F64_0_0)

\* risk_score.min(1.0).max(0.0)
Clamp(x) == F64Max(F64Min(x, F64_1_0), F64_0_0)

\* the weight of a category added once for each of its keywords found
Heuristic_PerKeyword(target) ==
    LET Add(s, found, weight) == IF found THEN F64Add(s, weight) ELSE s
        s1 == Add(Add(F64_0_0, Contains(target, "cloudflare"), CdnWeight),
                  Contains(target, "akamai"), CdnWeight)
        s2 == Add(Add(s1, EndsWith(target, ".gov"), GovWeight),
                  EndsWith(target, ".mil"), GovWeight)
        s3 == Add(Add(s2, Contains(target, "recaptcha"), CaptchaWeight),
                  Contains(target, "captcha"), CaptchaWeight)
        s4 == Add(Add(Add(Add(s3, Contains(target, "facebook"), SocialWeight),
                          Contains(target, "twitter"), SocialWeight),
                      Contains(target, "linkedin"), SocialWeight),
                  Contains(target, "instagram"), SocialWeight)
    IN  Clamp(s4)

Heuristic(target) ==
    LET s0 == F64_0_0
        s1 == IF IsCdn(target) THEN F64Add(s0, CdnWeight) ELSE s0
        s2 == IF IsGov(target) THEN F64Add(s1, GovWeight) ELSE s1
        s3 == IF IsCaptcha(target) THEN F64Add(s2, CaptchaWeight) ELSE s2
        s4 == IF IsSocial(target) THEN F64Add(s3, SocialWeight) ELSE s3
    IN  Clamp(s4)

-----------------------------------------------------------------------------
(* The tiering of select_fingerprint, get_tls_configuration, configure_timing *)

\* the tiers with the boundary scores in the upper tier
FingerprintType_Inclusive(risk_score) ==
    IF F64Le(F64_0_7, risk_score) THEN "stealth"
    ELSE IF F64Le(F64_0_4, risk_score) THEN "standard"
    ELSE "simple"

FingerprintType(risk_score) ==
    IF F64Gt(risk_score, F64_0_7) THEN "stealth"
    ELSE IF F64Gt(risk_score, F64_0_4) THEN "standard"
    ELSE "simple"

ProfileType(risk_score) ==
    IF F64Gt(risk_score, F64_0_6) THEN "chrome_latest" ELSE "firefox_standard"

TimingConfig(min, max, page, sim) ==
    [request_delay_min |-> min, request_delay_max |-> max,
     page_load_delay |-> page, human_simulation |-> sim]

\* the bands with the two delays of the fast band exchanged
Timing_SwappedDelays(risk_score) ==
    IF F64Gt(risk_score, F64_0_7) THEN TimingConfig(2000, 8000, 3000, TRUE)
    ELSE IF F64Gt(risk_score, F64_0_4) THEN TimingConfig(1000, 4000, 2000, TRUE)
    ELSE TimingConfig(2000, 500, 1000, FALSE)

Timing(risk_score) ==
    IF F64Gt(risk_score, F64_0_7) THEN TimingConfig(2000, 8000, 3000, TRUE)
    ELSE IF F64Gt(risk_score, F64_0_4) THEN TimingConfig(1000, 4000, 2000, TRUE)
    ELSE TimingConfig(500, 2000, 1000, FALSE)

-----------------------------------------------------------------------------
(* Processes, requests and the external collections *)

Workers == {"w1", "w2"}
Scheduler == "task"
Procs == Workers \cup {Scheduler}

\* the targets the concurrent specification requests
Targets == {"https://cdn.cloudflare.com/recaptcha/verify", "twitter.mil"}

\* the targets the single-request specifications draw from: every
\* combination of the four categories, the scenarios of the specification,
\* and near misses (case, a suffix that is not at the end)
AllTargets == Targets \cup
    {"", "example.com", "https://www.facebook.com/login", "irs.gov",
     "https://irs.gov/file",
     "akamai.net", "captcha", "Facebook.com", "army.mil/captcha",
     "cloudflare.gov", "linkedin.com/cloudflare", "recaptcha.gov",
     "instagram.gov", "captcha.facebook.com", "akamai.captcha.mil",
     "akamai.twitter.gov", "cloudflare.captcha.linkedin.com",
     "recaptcha.instagram.mil", "cloudflare.recaptcha.facebook.gov",
     "akamai.cloudflare.net"}

FingerprintTypes == {"stealth", "standard", "simple"}
ProfileTypes == {"chrome_latest", "firefox_standard"}

\* the order in which a rotation replaces the records
RotationOrder == <<"simple", "standard", "stealth">>

None == [kind |-> "None"]
\* a tier name not chosen yet
NoType == ""
Ok(v) == [kind |-> "Ok", value |-> v]
Err(e) == [kind |-> "Err", value |-> e]
Panic == [kind |-> "Panic", value |-> "PoisonError"]

\* a record of the fingerprint corpus: the record of a tier after gen rotations
BrowserFingerprint(type, gen) ==
    LET tag == type \o "#" \o ToString(gen)
    IN  [id |-> "id:" \o tag, user_agent |-> "ua:" \o tag,
         accept |-> "accept:" \o tag, accept_language |-> "lang:" \o tag,
         accept_encoding |-> "enc:" \o tag, dnt |-> "dnt:" \o tag]

TLSProfile(type) == [name |-> type]

ProxyConfig(url, type, interval) ==
    [proxy_url |-> url, proxy_type |-> type, rotation_interval |-> interval]

DetectionPattern(type, indicators, score) ==
    [pattern_type |-> type, indicators |-> indicators, risk_score |-> score]

\* the fallback descriptor with the rotation interval left at zero
DirectProxy_NoInterval == ProxyConfig("direct", "direct", 0)

DirectProxy == ProxyConfig("direct", "direct", 300)

\* the descriptors a populated pool may hold
ProxyDescriptors == {ProxyConfig("http://dc1:8080", "datacenter", 60),
                     ProxyConfig("http://res1:8080", "residential", 30)}

-----------------------------------------------------------------------------
(* State *)

VARIABLES
    pc,                       \* position of every process
    request,                  \* the request a worker is serving
    risk_score,               \* configure_security: risk_score
    fingerprint_type,         \* select_fingerprint: fingerprint_type
    fingerprint,              \* configure_security: fingerprint
    profile_type,             \* get_tls_configuration: profile_type
    tls_config,               \* configure_security: tls_config
    proxy_config,             \* configure_security: proxy_config
    timing_config,            \* configure_security: timing_config
    headers,                  \* configure_security: headers
    result,                   \* what the handler returns
    stages,                   \* the stages the current call has entered
    rotate_progress,          \* records a rotation in progress has replaced
    domain_risk_cache,        \* RiskAssessor.domain_risk_cache
    detection_patterns,       \* RiskAssessor.detection_patterns
    fingerprints,             \* the records of the FingerprintManager
    generation,               \* rotations completed
    profiles,                 \* the profiles of the TLSManager
    proxy_pool,               \* SecurityService.proxy_pool
    risk_assessor_lock,       \* RwLock of risk_assessor
    fingerprint_manager_lock, \* RwLock of fingerprint_manager
    tls_manager_lock,         \* RwLock of tls_manager
    proxy_pool_lock,          \* RwLock of proxy_pool
    heuristic_calls,          \* per target, times the substring checks ran
    returned,                 \* per target, the scores assess_target_risk returned
    failed                    \* per target, the failed calls that were answered

locals == <<request, risk_score, fingerprint_type, fingerprint, profile_type,
            tls_config, proxy_config, timing_config, headers, result, stages>>
collections == <<domain_risk_cache, detection_patterns, fingerprints, generation,
                 profiles, proxy_pool>>
locks == <<risk_assessor_lock, fingerprint_manager_lock, tls_manager_lock,
           proxy_pool_lock>>
history == <<heuristic_calls, returned, failed>>
vars == <<pc, locals, rotate_progress, collections, locks, history>>

-----------------------------------------------------------------------------
(* std::sync::RwLock *)

NewLock == [readers |-> {}, writers |-> {}, poisoned |-> FALSE]

\* write() granted without a look at the writer that holds the lock
CanAcquire_NoWriterCheck(lock, mode) ==
    IF mode = "write" THEN lock.readers = {}
    ELSE lock.writers = {}

\* read() is granted when no writer holds the lock, write() when nobody does
CanAcquire(lock, mode) ==
    IF mode = "write" THEN lock.writers = {} /\ lock.readers = {}
    ELSE lock.writers = {}

Acquire(lock, p, mode) ==
    IF mode = "write" THEN [lock EXCEPT !.writers = @ \cup {p}]
    ELSE [lock EXCEPT !.readers = @ \cup {p}]

\* dropping the guard
Release(lock, p) ==
    [lock EXCEPT !.writers = @ \ {p}, !.readers = @ \ {p}]

\* dropping the guard while unwinding: a write guard poisons the lock
ReleasePanicking(lock, p) ==
    [Release(lock, p) EXCEPT !.poisoned = @ \/ (p \in lock.writers)]

\* the shared guard, were the cache looked up under read()
assess_target_risk_guard_Read == "read"

\* the guard each call site asks for
assess_target_risk_guard == "write"
select_fingerprint_guard == "read"
get_tls_configuration_guard == "read"
select_proxy_guard == "read"
get_fingerprint_guard == "read"

\* the handler rotating under the shared guard
rotate_fingerprints_guard_Read == "read"

rotate_fingerprints_guard == "write"

\* the task rotating under the shared guard
fingerprint_rotation_task_guard_Read == "read"

fingerprint_rotation_task_guard == "write"

-----------------------------------------------------------------------------
(* SecurityService::new and main *)

\* the catalog RiskAssessor::new builds
NewDetectionPatterns ==
    << DetectionPattern("rate_limiting", <<"429", "rate limit">>, F64_0_8),
       DetectionPattern("captcha", <<"captcha", "recaptcha">>, F64_0_9),
       DetectionPattern("bot_detection",
                        <<"bot detected", "unusual traffic">>, F64_0_95) >>

InitLocals ==
    /\ request = [w \in Workers |-> None]
    /\ risk_score = [w \in Workers |-> None]
    /\ fingerprint_type = [w \in Workers |-> NoType]
    /\ fingerprint = [w \in Workers |-> None]
    /\ profile_type = [w \in Workers |-> NoType]
    /\ tls_config = [w \in Workers |-> None]
    /\ proxy_config = [w \in Workers |-> None]
    /\ timing_config = [w \in Workers |-> None]
    /\ headers = [w \in Workers |-> None]
    /\ result = [w \in Workers |-> None]
    /\ stages = [w \in Workers |-> <<>>]

InitService(fp_types, tls_types, pool) ==
    /\ pc = [p \in Procs |-> IF p = Scheduler THEN "tick" ELSE "idle"]
    /\ InitLocals
    /\ rotate_progress = [p \in Procs |-> 0]
    /\ domain_risk_cache = <<>>
    /\ detection_patterns = NewDetectionPatterns
    /\ fingerprints = [t \in FingerprintTypes |->
                         IF t \in fp_types THEN BrowserFingerprint(t, 0) ELSE None]
    /\ generation = 0
    /\ profiles = [t \in ProfileTypes |->
                     IF t \in tls_types THEN TLSProfile(t) ELSE None]
    /\ proxy_pool = pool
    /\ risk_assessor_lock = NewLock
    /\ fingerprint_manager_lock = NewLock
    /\ tls_manager_lock = NewLock
    /\ proxy_pool_lock = NewLock
    /\ heuristic_calls = [t \in AllTargets |-> 0]
    /\ returned = [t \in AllTargets |-> {}]
    /\ failed = [t \in AllTargets |-> {}]

Init == InitService(FingerprintTypes, ProfileTypes, <<>>)

-----------------------------------------------------------------------------
(* SecurityService::configure_security and its stages *)

\* an insertion that also drops the rest of the map
Put_Replace(f, k, v) == [x \in {k} |-> v]

\* HashMap::insert
Put(f, k, v) == [x \in DOMAIN f \cup {k} |-> IF x = k THEN v ELSE f[x]]

\* a missing record replaced by a default one instead of failing the stage
OkOrElse_Default(option, error) ==
    IF option = None THEN Ok(BrowserFingerprint("default", 0)) ELSE Ok(option)

\* Option::ok_or_else followed by `?`: a missing record is the stage's error
OkOrElse(option, error) == IF option = None THEN Err(error) ELSE Ok(option)

\* lock().unwrap() on a poisoned lock panics in the handler
HandlerPanics(w) ==
    /\ pc' = [pc EXCEPT ![w] = "done"]
    /\ result' = [result EXCEPT ![w] = Panic]

\* POST /security/configure arrives at an idle worker
configure_security_call(w, target) ==
    /\ pc[w] = "idle"
    /\ pc' = [pc EXCEPT ![w] = "assess_target_risk"]
    /\ request' = [request EXCEPT ![w] = [op |-> "configure", target |-> target]]
    /\ UNCHANGED <<risk_score, fingerprint_type, fingerprint, profile_type,
                   tls_config, proxy_config, timing_config, headers, result,
                   stages, rotate_progress, collections, locks, history>>

\* self.risk_assessor.write().unwrap()
assess_target_risk_lock(w) ==
    /\ pc[w] = "assess_target_risk"
    /\ CanAcquire(risk_assessor_lock, assess_target_risk_guard)
    /\ stages' = [stages EXCEPT ![w] = Append(@, "score")]
    /\ IF risk_assessor_lock.poisoned
       THEN /\ HandlerPanics(w)
            /\ UNCHANGED risk_assessor_lock
       ELSE /\ pc' = [pc EXCEPT ![w] = "assess_check"]
            /\ risk_assessor_lock' =
                   Acquire(risk_assessor_lock, w, assess_target_risk_guard)
            /\ UNCHANGED result
    /\ UNCHANGED <<request, risk_score, fingerprint_type, fingerprint,
                   profile_type, tls_config, proxy_config, timing_config,
                   headers, rotate_progress, collections,
                   fingerprint_manager_lock, tls_manager_lock, proxy_pool_lock,
                   history>>

\* the cache lookup; a hit returns the cached score
assess_target_risk_check(w) ==
    /\ pc[w] = "assess_check"
    /\ LET target == request[w].target
       IN  IF target \in DOMAIN domain_risk_cache
           THEN /\ risk_score' = [risk_score EXCEPT ![w] = domain_risk_cache[target]]
                /\ returned' = [returned EXCEPT ![target] =
                                   @ \cup {domain_risk_cache[target]}]
                /\ risk_assessor_lock' = Release(risk_assessor_lock, w)
                /\ pc' = [pc EXCEPT ![w] = "select_fingerprint"]
           ELSE /\ pc' = [pc EXCEPT ![w] = "assess_compute"]
                /\ UNCHANGED <<risk_score, returned, risk_assessor_lock>>
    /\ UNCHANGED <<request, fingerprint_type, fingerprint, profile_type,
                   tls_config, proxy_config, timing_config, headers, result,
                   stages, rotate_progress, collections,
                   fingerprint_manager_lock, tls_manager_lock, proxy_pool_lock,
                   heuristic_calls, failed>>

\* the miss: the substring checks, the clamp and the insertion
assess_target_risk_compute(w) ==
    /\ pc[w] = "assess_compute"
    /\ LET target == request[w].target
           score  == Heuristic(target)
       IN  /\ heuristic_calls' = [heuristic_calls EXCEPT ![target] = @ + 1]
           /\ domain_risk_cache' = Put(domain_risk_cache, target, score)
           /\ risk_score' = [risk_score EXCEPT ![w] = score]
           /\ returned' = [returned EXCEPT ![target] = @ \cup {score}]
    /\ risk_assessor_lock' = Release(risk_assessor_lock, w)
    /\ pc' = [pc EXCEPT ![w] = "select_fingerprint"]
    /\ UNCHANGED <<request, fingerprint_type, fingerprint, profile_type,
                   tls_config, proxy_config, timing_config, headers, result,
                   stages, rotate_progress, detection_patterns, fingerprints,
                   generation, profiles, proxy_pool, fingerprint_manager_lock,
                   tls_manager_lock, proxy_pool_lock, failed>>

\* self.fingerprint_manager.read().unwrap()
select_fingerprint_lock(w) ==
    /\ pc[w] = "select_fingerprint"
    /\ CanAcquire(fingerprint_manager_lock, select_fingerprint_guard)
    /\ stages' = [stages EXCEPT ![w] = Append(@, "fingerprint")]
    /\ IF fingerprint_manager_lock.poisoned
       THEN /\ HandlerPanics(w)
            /\ UNCHANGED fingerprint_manager_lock
       ELSE /\ pc' = [pc EXCEPT ![w] = "select_fingerprint_cs"]
            /\ fingerprint_manager_lock' =
                   Acquire(fingerprint_manager_lock, w, select_fingerprint_guard)
            /\ UNCHANGED result
    /\ UNCHANGED <<request, risk_score, fingerprint_type, fingerprint,
                   profile_type, tls_config, proxy_config, timing_config,
                   headers, rotate_progress, collections, risk_assessor_lock,
                   tls_manager_lock, proxy_pool_lock, history>>

\* FingerprintManager::get_fingerprint: the record of a tier, if any
GetFingerprint(type) ==
    IF type \in DOMAIN fingerprints THEN fingerprints[type] ELSE None

\* the tier and the lookup of select_fingerprint
select_fingerprint_body(w) ==
    /\ pc[w] = "select_fingerprint_cs"
    /\ LET type  == FingerprintType(risk_score[w])
           found == OkOrElse(GetFingerprint(type),
                             "No suitable fingerprint available")
       IN  /\ fingerprint_type' = [fingerprint_type EXCEPT ![w] = type]
           /\ IF found.kind = "Err"
              THEN /\ result' = [result EXCEPT ![w] = found]
                   /\ pc' = [pc EXCEPT ![w] = "done"]
                   /\ UNCHANGED fingerprint
              ELSE /\ fingerprint' = [fingerprint EXCEPT ![w] = found.value]
                   /\ pc' = [pc EXCEPT ![w] = "get_tls_configuration"]
                   /\ UNCHANGED result
    /\ fingerprint_manager_lock' = Release(fingerprint_manager_lock, w)
    /\ UNCHANGED <<request, risk_score, profile_type, tls_config, proxy_config,
                   timing_config, headers, stages, rotate_progress, collections,
                   risk_assessor_lock, tls_manager_lock, proxy_pool_lock,
                   history>>

\* self.tls_manager.read().unwrap()
get_tls_configuration_lock(w) ==
    /\ pc[w] = "get_tls_configuration"
    /\ CanAcquire(tls_manager_lock, get_tls_configuration_guard)
    /\ stages' = [stages EXCEPT ![w] = Append(@, "tls")]
    /\ IF tls_manager_lock.poisoned
       THEN /\ HandlerPanics(w)
            /\ UNCHANGED tls_manager_lock
       ELSE /\ pc' = [pc EXCEPT ![w] = "get_tls_configuration_cs"]
            /\ tls_manager_lock' =
                   Acquire(tls_manager_lock, w, get_tls_configuration_guard)
            /\ UNCHANGED result
    /\ UNCHANGED <<request, risk_score, fingerprint_type, fingerprint,
                   profile_type, tls_config, proxy_config, timing_config,
                   headers, rotate_progress, collections, risk_assessor_lock,
                   fingerprint_manager_lock, proxy_pool_lock, history>>

\* TLSManager::get_profile: the profile of a tier, if any
GetProfile(type) ==
    IF type \in DOMAIN profiles THEN profiles[type] ELSE None

\* the tier and the lookup of get_tls_configuration
get_tls_configuration_body(w) ==
    /\ pc[w] = "get_tls_configuration_cs"
    /\ LET type  == ProfileType(risk_score[w])
           found == OkOrElse(GetProfile(type),
                             "No suitable TLS profile available")
       IN  /\ profile_type' = [profile_type EXCEPT ![w] = type]
           /\ IF found.kind = "Err"
              THEN /\ result' = [result EXCEPT ![w] = found]
                   /\ pc' = [pc EXCEPT ![w] = "done"]
                   /\ UNCHANGED tls_config
              ELSE /\ tls_config' = [tls_config EXCEPT ![w] = found.value]
                   /\ pc' = [pc EXCEPT ![w] = "select_proxy"]
                   /\ UNCHANGED result
    /\ tls_manager_lock' = Release(tls_manager_lock, w)
    /\ UNCHANGED <<request, risk_score, fingerprint_type, fingerprint,
                   proxy_config, timing_config, headers, stages,
                   rotate_progress, collections, risk_assessor_lock,
                   fingerprint_manager_lock, proxy_pool_lock, history>>

\* the range with its upper end included
GenRange_Inclusive(low, high) == low..high

\* rand::thread_rng().gen_range(low..high): any value of the half-open range
GenRange(low, high) == low..(high - 1)

\* the indices select_proxy may read from a non-empty pool (0-based)
ProxyIndices(pool, score) ==
    IF F64Gt(score, F64_0_5) THEN GenRange(0, Len(pool)) ELSE {0}

\* self.proxy_pool.read().unwrap()
select_proxy_lock(w) ==
    /\ pc[w] = "select_proxy"
    /\ CanAcquire(proxy_pool_lock, select_proxy_guard)
    /\ stages' = [stages EXCEPT ![w] = Append(@, "proxy")]
    /\ IF proxy_pool_lock.poisoned
       THEN /\ HandlerPanics(w)
            /\ UNCHANGED proxy_pool_lock
       ELSE /\ pc' = [pc EXCEPT ![w] = "select_proxy_cs"]
            /\ proxy_pool_lock' = Acquire(proxy_pool_lock, w, select_proxy_guard)
            /\ UNCHANGED result
    /\ UNCHANGED <<request, risk_score, fingerprint_type, fingerprint,
                   profile_type, tls_config, proxy_config, timing_config,
                   headers, rotate_progress, collections, risk_assessor_lock,
                   fingerprint_manager_lock, tls_manager_lock, history>>

\* select_proxy adding the fallback descriptor to the empty pool
select_proxy_body_Push(w) ==
    /\ pc[w] = "select_proxy_cs"
    /\ IF Len(proxy_pool) = 0
       THEN /\ proxy_config' = [proxy_config EXCEPT ![w] = DirectProxy]
            /\ proxy_pool' = Append(proxy_pool, DirectProxy)
            /\ pc' = [pc EXCEPT ![w] = "configure_timing"]
            /\ UNCHANGED result
       ELSE /\ UNCHANGED proxy_pool
            /\ \E proxy_index \in ProxyIndices(proxy_pool, risk_score[w]) :
                   IF proxy_index < Len(proxy_pool)
                   THEN /\ proxy_config' = [proxy_config EXCEPT ![w] =
                                               proxy_pool[proxy_index + 1]]
                        /\ pc' = [pc EXCEPT ![w] = "configure_timing"]
                        /\ UNCHANGED result
                   ELSE /\ result' = [result EXCEPT ![w] =
                                         [kind |-> "Panic",
                                          value |-> "index out of bounds"]]
                        /\ pc' = [pc EXCEPT ![w] = "done"]
                        /\ UNCHANGED proxy_config
    /\ proxy_pool_lock' = Release(proxy_pool_lock, w)
    /\ UNCHANGED <<request, risk_score, fingerprint_type, fingerprint,
                   profile_type, tls_config, timing_config, headers, stages,
                   rotate_progress, domain_risk_cache, detection_patterns,
                   fingerprints, generation, profiles, risk_assessor_lock,
                   fingerprint_manager_lock, tls_manager_lock, history>>

\* the choice of select_proxy; indexing past the end of the Vec panics
select_proxy_body(w) ==
    /\ pc[w] = "select_proxy_cs"
    /\ IF Len(proxy_pool) = 0
       THEN /\ proxy_config' = [proxy_config EXCEPT ![w] = DirectProxy]
            /\ pc' = [pc EXCEPT ![w] = "configure_timing"]
            /\ UNCHANGED result
       ELSE \E proxy_index \in ProxyIndices(proxy_pool, risk_score[w]) :
              IF proxy_index < Len(proxy_pool)
              THEN /\ proxy_config' = [proxy_config EXCEPT ![w] =
                                          proxy_pool[proxy_index + 1]]
                   /\ pc' = [pc EXCEPT ![w] = "configure_timing"]
                   /\ UNCHANGED result
              ELSE /\ result' = [result EXCEPT ![w] =
                                    [kind |-> "Panic",
                                     value |-> "index out of bounds"]]
                   /\ pc' = [pc EXCEPT ![w] = "done"]
                   /\ UNCHANGED proxy_config
    /\ proxy_pool_lock' = Release(proxy_pool_lock, w)
    /\ UNCHANGED <<request, risk_score, fingerprint_type, fingerprint,
                   profile_type, tls_config, timing_config, headers, stages,
                   rotate_progress, collections, risk_assessor_lock,
                   fingerprint_manager_lock, tls_manager_lock, history>>

configure_timing(w) ==
    /\ pc[w] = "configure_timing"
    /\ stages' = [stages EXCEPT ![w] = Append(@, "timing")]
    /\ timing_config' = [timing_config EXCEPT ![w] = Timing(risk_score[w])]
    /\ pc' = [pc EXCEPT ![w] = "build_headers"]
    /\ UNCHANGED <<request, risk_score, fingerprint_type, fingerprint,
                   profile_type, tls_config, proxy_config, headers, result,
                   rotate_progress, collections, locks, history>>

\* the header map with Sec-Fetch-Site left out of the second trial
Headers_PartialTriplet(fp, cache_control, sec_fetch) ==
    LET mandatory ==
            ("User-Agent" :> fp.user_agent) @@ ("Accept" :> fp.accept) @@
            ("Accept-Language" :> fp.accept_language) @@
            ("Accept-Encoding" :> fp.accept_encoding) @@ ("DNT" :> fp.dnt) @@
            ("Connection" :> "keep-alive") @@
            ("Upgrade-Insecure-Requests" :> "1")
        cache == IF cache_control
                 THEN mandatory @@ ("Cache-Control" :> "max-age=0")
                 ELSE mandatory
    IN  IF sec_fetch
        THEN cache @@ ("Sec-Fetch-Dest" :> "document") @@
             ("Sec-Fetch-Mode" :> "navigate")
        ELSE cache

\* the header map for the outcomes of the two gen_bool trials
Headers(fp, cache_control, sec_fetch) ==
    LET mandatory ==
            ("User-Agent" :> fp.user_agent) @@ ("Accept" :> fp.accept) @@
            ("Accept-Language" :> fp.accept_language) @@
            ("Accept-Encoding" :> fp.accept_encoding) @@ ("DNT" :> fp.dnt) @@
            ("Connection" :> "keep-alive") @@
            ("Upgrade-Insecure-Requests" :> "1")
        cache == IF cache_control
                 THEN mandatory @@ ("Cache-Control" :> "max-age=0")
                 ELSE mandatory
    IN  IF sec_fetch
        THEN cache @@ ("Sec-Fetch-Dest" :> "document") @@
             ("Sec-Fetch-Mode" :> "navigate") @@ ("Sec-Fetch-Site" :> "none")
        ELSE cache

SecurityConfiguration(h, tls, proxy, timing, fp) ==
    [headers |-> h, tls_config |-> tls, proxy_config |-> proxy,
     timing_config |-> timing, fingerprint_id |-> fp.id]

\* build_headers reading the manager's current record instead of the copy
build_headers_Reread(w) ==
    /\ pc[w] = "build_headers"
    /\ stages' = [stages EXCEPT ![w] = Append(@, "headers")]
    /\ \E cache_control \in BOOLEAN, sec_fetch \in BOOLEAN :
         LET h == Headers(GetFingerprint(fingerprint_type[w]),
                          cache_control, sec_fetch)
         IN  /\ headers' = [headers EXCEPT ![w] = h]
             /\ result' = [result EXCEPT ![w] =
                              Ok(SecurityConfiguration(h, tls_config[w],
                                     proxy_config[w], timing_config[w],
                                     fingerprint[w]))]
    /\ pc' = [pc EXCEPT ![w] = "done"]
    /\ UNCHANGED <<request, risk_score, fingerprint_type, fingerprint,
                   profile_type, tls_config, proxy_config, timing_config,
                   rotate_progress, collections, locks, history>>

\* build_headers and the Ok(SecurityConfiguration { .. }) of configure_security
build_headers(w) ==
    /\ pc[w] = "build_headers"
    /\ stages' = [stages EXCEPT ![w] = Append(@, "headers")]
    /\ \E cache_control \in BOOLEAN, sec_fetch \in BOOLEAN :
         LET h == Headers(fingerprint[w], cache_control, sec_fetch)
         IN  /\ headers' = [headers EXCEPT ![w] = h]
             /\ result' = [result EXCEPT ![w] =
                              Ok(SecurityConfiguration(h, tls_config[w],
                                     proxy_config[w], timing_config[w],
                                     fingerprint[w]))]
    /\ pc' = [pc EXCEPT ![w] = "done"]
    /\ UNCHANGED <<request, risk_score, fingerprint_type, fingerprint,
                   profile_type, tls_config, proxy_config, timing_config,
                   rotate_progress, collections, locks, history>>

\* a response that takes the target of a failed call out of the cache
respond_Evict(w) ==
    /\ pc[w] = "done"
    /\ pc' = [pc EXCEPT ![w] = "idle"]
    /\ request' = [request EXCEPT ![w] = None]
    /\ risk_score' = [risk_score EXCEPT ![w] = None]
    /\ fingerprint_type' = [fingerprint_type EXCEPT ![w] = NoType]
    /\ fingerprint' = [fingerprint EXCEPT ![w] = None]
    /\ profile_type' = [profile_type EXCEPT ![w] = NoType]
    /\ tls_config' = [tls_config EXCEPT ![w] = None]
    /\ proxy_config' = [proxy_config EXCEPT ![w] = None]
    /\ timing_config' = [timing_config EXCEPT ![w] = None]
    /\ headers' = [headers EXCEPT ![w] = None]
    /\ result' = [result EXCEPT ![w] = None]
    /\ stages' = [stages EXCEPT ![w] = <<>>]
    /\ IF request[w].op = "configure" /\ result[w].kind = "Err"
       THEN /\ failed' = [failed EXCEPT ![request[w].target] =
                   @ \cup {[risk_score |-> risk_score[w],
                            fingerprint_type |-> fingerprint_type[w],
                            profile_type |-> profile_type[w],
                            error |-> result[w].value]}]
            /\ domain_risk_cache' =
                   [t \in DOMAIN domain_risk_cache \ {request[w].target} |->
                       domain_risk_cache[t]]
       ELSE UNCHANGED <<failed, domain_risk_cache>>
    /\ UNCHANGED <<rotate_progress, detection_patterns, fingerprints,
                   generation, profiles, proxy_pool, locks, heuristic_calls,
                   returned>>

\* the handler sends its response and the worker takes the next request
respond(w) ==
    /\ pc[w] = "done"
    /\ pc' = [pc EXCEPT ![w] = "idle"]
    /\ request' = [request EXCEPT ![w] = None]
    /\ risk_score' = [risk_score EXCEPT ![w] = None]
    /\ fingerprint_type' = [fingerprint_type EXCEPT ![w] = NoType]
    /\ fingerprint' = [fingerprint EXCEPT ![w] = None]
    /\ profile_type' = [profile_type EXCEPT ![w] = NoType]
    /\ tls_config' = [tls_config EXCEPT ![w] = None]
    /\ proxy_config' = [proxy_config EXCEPT ![w] = None]
    /\ timing_config' = [timing_config EXCEPT ![w] = None]
    /\ headers' = [headers EXCEPT ![w] = None]
    /\ result' = [result EXCEPT ![w] = None]
    /\ stages' = [stages EXCEPT ![w] = <<>>]
    /\ failed' =
          IF request[w].op = "configure" /\ result[w].kind = "Err"
          THEN [failed EXCEPT ![request[w].target] =
                   @ \cup {[risk_score |-> risk_score[w],
                            fingerprint_type |-> fingerprint_type[w],
                            profile_type |-> profile_type[w],
                            error |-> result[w].value]}]
          ELSE failed
    /\ UNCHANGED <<rotate_progress, collections, locks, heuristic_calls,
                   returned>>

-----------------------------------------------------------------------------
(* GET /fingerprint/{type} *)

get_fingerprint_call(w, type) ==
    /\ pc[w] = "idle"
    /\ pc' = [pc EXCEPT ![w] = "get_fingerprint"]
    /\ request' = [request EXCEPT ![w] = [op |-> "get_fingerprint", type |-> type]]
    /\ UNCHANGED <<risk_score, fingerprint_type, fingerprint, profile_type,
                   tls_config, proxy_config, timing_config, headers, result,
                   stages, rotate_progress, collections, locks, history>>

\* service.fingerprint_manager.read().unwrap()
get_fingerprint_lock(w) ==
    /\ pc[w] = "get_fingerprint"
    /\ CanAcquire(fingerprint_manager_lock, get_fingerprint_guard)
    /\ IF fingerprint_manager_lock.poisoned
       THEN /\ HandlerPanics(w)
            /\ UNCHANGED fingerprint_manager_lock
       ELSE /\ pc' = [pc EXCEPT ![w] = "get_fingerprint_cs"]
            /\ fingerprint_manager_lock' =
                   Acquire(fingerprint_manager_lock, w, get_fingerprint_guard)
            /\ UNCHANGED result
    /\ UNCHANGED <<request, risk_score, fingerprint_type, fingerprint,
                   profile_type, tls_config, proxy_config, timing_config,
                   headers, stages, rotate_progress, collections,
                   risk_assessor_lock, tls_manager_lock, proxy_pool_lock,
                   history>>

get_fingerprint_body(w) ==
    /\ pc[w] = "get_fingerprint_cs"
    /\ LET found == GetFingerprint(request[w].type)
       IN  /\ fingerprint' = [fingerprint EXCEPT ![w] = found]
           /\ result' = [result EXCEPT ![w] =
                            IF found = None THEN Err("Fingerprint type not found")
                            ELSE Ok(found)]
    /\ fingerprint_manager_lock' = Release(fingerprint_manager_lock, w)
    /\ pc' = [pc EXCEPT ![w] = "done"]
    /\ UNCHANGED <<request, risk_score, fingerprint_type, profile_type,
                   tls_config, proxy_config, timing_config, headers, stages,
                   rotate_progress, collections, risk_assessor_lock,
                   tls_manager_lock, proxy_pool_lock, history>>

-----------------------------------------------------------------------------
(* Rotation: POST /fingerprint/rotate and fingerprint_rotation_task *)

\* rotations that have the lock or are about to ask for it
InFlight == {p \in Procs : pc[p] \in {"rotate_fingerprints", "rotate_cs",
                                       "task_lock", "task_cs"}}

MayStartRotation == generation + Cardinality(InFlight) < MaxRotations

rotate_fingerprints_call(w) ==
    /\ pc[w] = "idle"
    /\ MayStartRotation
    /\ pc' = [pc EXCEPT ![w] = "rotate_fingerprints"]
    /\ request' = [request EXCEPT ![w] = [op |-> "rotate"]]
    /\ UNCHANGED <<risk_score, fingerprint_type, fingerprint, profile_type,
                   tls_config, proxy_config, timing_config, headers, result,
                   stages, rotate_progress, collections, locks, history>>

\* service.fingerprint_manager.write().unwrap() of the handler
rotate_fingerprints_lock(w) ==
    /\ pc[w] = "rotate_fingerprints"
    /\ CanAcquire(fingerprint_manager_lock, rotate_fingerprints_guard)
    /\ IF fingerprint_manager_lock.poisoned
       THEN /\ HandlerPanics(w)
            /\ UNCHANGED fingerprint_manager_lock
       ELSE /\ pc' = [pc EXCEPT ![w] = "rotate_cs"]
            /\ fingerprint_manager_lock' =
                   Acquire(fingerprint_manager_lock, w, rotate_fingerprints_guard)
            /\ UNCHANGED result
    /\ UNCHANGED <<request, risk_score, fingerprint_type, fingerprint,
                   profile_type, tls_config, proxy_config, timing_config,
                   headers, stages, rotate_progress, collections,
                   risk_assessor_lock, tls_manager_lock, proxy_pool_lock,
                   history>>

\* FingerprintManager::rotate_fingerprints replaces the record of one tier
RotateStep(p) ==
    /\ pc[p] \in {"rotate_cs", "task_cs"}
    /\ rotate_progress[p] < Len(RotationOrder)
    /\ LET type == RotationOrder[rotate_progress[p] + 1]
       IN  fingerprints' =
               IF fingerprints[type] = None THEN fingerprints
               ELSE [fingerprints EXCEPT
                        ![type] = BrowserFingerprint(type, generation + 1)]
    /\ rotate_progress' = [rotate_progress EXCEPT ![p] = @ + 1]
    /\ UNCHANGED <<pc, locals, domain_risk_cache, detection_patterns,
                   generation, profiles, proxy_pool, locks, history>>

\* FingerprintManager::rotate_fingerprints fails: the caller unwinds with
\* the guard it holds; a handler's worker survives, the spawned task ends
RotateFail(p) ==
    /\ pc[p] \in {"rotate_cs", "task_cs"}
    /\ fingerprint_manager_lock' = ReleasePanicking(fingerprint_manager_lock, p)
    /\ rotate_progress' = [rotate_progress EXCEPT ![p] = 0]
    /\ IF p = Scheduler
       THEN /\ pc' = [pc EXCEPT ![p] = "dead"]
            /\ UNCHANGED result
       ELSE /\ pc' = [pc EXCEPT ![p] = "done"]
            /\ result' = [result EXCEPT ![p] =
                             [kind |-> "Panic", value |-> "rotate_fingerprints"]]
    /\ UNCHANGED <<request, risk_score, fingerprint_type, fingerprint,
                   profile_type, tls_config, proxy_config, timing_config,
                   headers, stages, collections, risk_assessor_lock,
                   tls_manager_lock, proxy_pool_lock, history>>

\* the rotation is complete: the handler answers and drops the guard
rotate_fingerprints_return(w) ==
    /\ pc[w] = "rotate_cs"
    /\ rotate_progress[w] = Len(RotationOrder)
    /\ generation' = generation + 1
    /\ rotate_progress' = [rotate_progress EXCEPT ![w] = 0]
    /\ fingerprint_manager_lock' = Release(fingerprint_manager_lock, w)
    /\ result' = [result EXCEPT ![w] = Ok("Fingerprints rotated successfully")]
    /\ pc' = [pc EXCEPT ![w] = "done"]
    /\ UNCHANGED <<request, risk_score, fingerprint_type, fingerprint,
                   profile_type, tls_config, proxy_config, timing_config,
                   headers, stages, domain_risk_cache, detection_patterns,
                   fingerprints, profiles, proxy_pool, risk_assessor_lock,
                   tls_manager_lock,
                   proxy_pool_lock, history>>

\* interval.tick().await returns
fingerprint_rotation_task_tick ==
    /\ pc[Scheduler] = "tick"
    /\ MayStartRotation
    /\ pc' = [pc EXCEPT ![Scheduler] = "task_lock"]
    /\ UNCHANGED <<locals, rotate_progress, collections, locks, history>>

\* service.fingerprint_manager.write().unwrap() of the task
fingerprint_rotation_task_lock ==
    /\ pc[Scheduler] = "task_lock"
    /\ CanAcquire(fingerprint_manager_lock, fingerprint_rotation_task_guard)
    /\ IF fingerprint_manager_lock.poisoned
       THEN /\ pc' = [pc EXCEPT ![Scheduler] = "dead"]
            /\ UNCHANGED fingerprint_manager_lock
       ELSE /\ pc' = [pc EXCEPT ![Scheduler] = "task_cs"]
            /\ fingerprint_manager_lock' =
                   Acquire(fingerprint_manager_lock, Scheduler,
                           fingerprint_rotation_task_guard)
    /\ UNCHANGED <<locals, rotate_progress, collections, risk_assessor_lock,
                   tls_manager_lock, proxy_pool_lock, history>>

\* the rotation is complete: println!, the guard is dropped, the loop repeats
fingerprint_rotation_task_loop ==
    /\ pc[Scheduler] = "task_cs"
    /\ rotate_progress[Scheduler] = Len(RotationOrder)
    /\ generation' = generation + 1
    /\ rotate_progress' = [rotate_progress EXCEPT ![Scheduler] = 0]
    /\ fingerprint_manager_lock' = Release(fingerprint_manager_lock, Scheduler)
    /\ pc' = [pc EXCEPT ![Scheduler] = "tick"]
    /\ UNCHANGED <<locals, domain_risk_cache, detection_patterns,
                   fingerprints, profiles, proxy_pool, risk_assessor_lock,
                   tls_manager_lock,
                   proxy_pool_lock, history>>

-----------------------------------------------------------------------------
(* The service: workers serve requests while the rotation task runs *)

\* the tier names GET /fingerprint/{type} is asked for
RequestedTypes == {"standard", "mobile"}

Pipeline(w) ==
    \/ assess_target_risk_lock(w)
    \/ assess_target_risk_check(w)
    \/ assess_target_risk_compute(w)
    \/ select_fingerprint_lock(w)
    \/ select_fingerprint_body(w)
    \/ get_tls_configuration_lock(w)
    \/ get_tls_configuration_body(w)
    \/ select_proxy_lock(w)
    \/ select_proxy_body(w)
    \/ configure_timing(w)
    \/ build_headers(w)
    \/ respond(w)

Next ==
    \/ \E w \in Workers, target \in Targets : configure_security_call(w, target)
    \/ \E w \in Workers : Pipeline(w)
    \/ \E w \in Workers, type \in RequestedTypes : get_fingerprint_call(w, type)
    \/ \E w \in Workers : get_fingerprint_lock(w)
    \/ \E w \in Workers : get_fingerprint_body(w)
    \/ \E w \in Workers : rotate_fingerprints_call(w)
    \/ \E w \in Workers : rotate_fingerprints_lock(w)
    \/ \E w \in Workers : rotate_fingerprints_return(w)
    \/ \E p \in Procs : RotateStep(p)
    \/ \E p \in Procs : RotateFail(p)
    \/ fingerprint_rotation_task_tick
    \/ fingerprint_rotation_task_lock
    \/ fingerprint_rotation_task_loop

Spec == Init /\ [][Next]_vars

-----------------------------------------------------------------------------
(* One worker serving configure requests, for the claims about one call:   *)
(* any target, any content of the two managers, any proxy pool             *)

FirstWorker == "w1"

\* the pools of at most MaxPool descriptors
Pools == UNION {[1..n -> ProxyDescriptors] : n \in 0..MaxPool}

\* a behaviour scores at most MaxSeqTargets distinct targets
MayRequest(target) ==
    \/ target \in DOMAIN domain_risk_cache
    \/ Cardinality(DOMAIN domain_risk_cache) < MaxSeqTargets

InitRequest ==
    \E fp_types \in SUBSET FingerprintTypes, tls_types \in SUBSET ProfileTypes :
        InitService(fp_types, tls_types, <<>>)

InitProxy ==
    \E pool \in Pools : InitService(FingerprintTypes, ProfileTypes, pool)

NextRequest ==
    \/ \E target \in AllTargets :
         MayRequest(target) /\ configure_security_call(FirstWorker, target)
    \/ Pipeline(FirstWorker)

SpecRequest == InitRequest /\ [][NextRequest]_vars

SpecProxy == InitProxy /\ [][NextRequest]_vars

-----------------------------------------------------------------------------
(* Claims *)

InUnitInterval(x) == F64Le(F64_0_0, x) /\ F64Le(x, F64_1_0)

\* C1: after any interleaving of configure calls, every score returned by
\* assess_target_risk and every score stored in domain_risk_cache lies in
\* the closed interval [0, 1].
C1_ScoreInUnitInterval ==
    /\ \A t \in DOMAIN domain_risk_cache : InUnitInterval(domain_risk_cache[t])
    /\ \A w \in Workers : risk_score[w] # None => InUnitInterval(risk_score[w])
    /\ \A t \in AllTargets : \A v \in returned[t] : InUnitInterval(v)

\* a target whose weights sum to 1.1 has been scored and cached as 1.0
C1_Witness ==
    /\ "twitter.mil" \in DOMAIN domain_risk_cache
    /\ domain_risk_cache["twitter.mil"] = F64_1_0
    /\ \E w \in Workers :
         /\ pc[w] = "select_fingerprint"
         /\ request[w].target = "twitter.mil"
         /\ risk_score[w] = F64_1_0

\* C2: for every target the substring checks run at most once over the whole
\* run, also when several workers ask for an unseen target together, and
\* every call of assess_target_risk for a target returns the same score.
C2_ScoredOnce ==
    \A t \in AllTargets :
        /\ heuristic_calls[t] <= 1
        /\ Cardinality(returned[t]) <= 1
        /\ heuristic_calls[t] = 0 => t \notin DOMAIN domain_risk_cache

\* two workers hold the score of the same target, which was computed once
C2_Witness ==
    \E w1 \in Workers, w2 \in Workers :
        /\ w1 # w2
        /\ pc[w1] = "select_fingerprint" /\ pc[w2] = "select_fingerprint"
        /\ request[w1].target = request[w2].target
        /\ risk_score[w1] = risk_score[w2]
        /\ heuristic_calls[request[w1].target] = 1

\* the four categories of the risk heuristic: keywords looked for anywhere
\* in the target, suffixes looked for at its end, and the weight
RiskCategories ==
    << [contains |-> {"cloudflare", "akamai"}, suffixes |-> {},
        weight |-> F64_0_3],
       [contains |-> {}, suffixes |-> {".gov", ".mil"}, weight |-> F64_0_5],
       [contains |-> {"recaptcha", "captcha"}, suffixes |-> {},
        weight |-> F64_0_4],
       [contains |-> {"facebook", "twitter", "linkedin", "instagram"},
        suffixes |-> {}, weight |-> F64_0_6] >>

MatchesCategory(target, c) ==
    \/ \E k \in c.contains : Contains(target, k)
    \/ \E k \in c.suffixes : EndsWith(target, k)

RECURSIVE CategorySum(_, _)
CategorySum(target, n) ==
    IF n = 0 THEN F64_0_0
    ELSE IF MatchesCategory(target, RiskCategories[n])
         THEN F64Add(CategorySum(target, n - 1), RiskCategories[n].weight)
         ELSE CategorySum(target, n - 1)

CategoryScore(target) ==
    F64Min(F64_1_0, CategorySum(target, Len(RiskCategories)))

ScenarioCdnCaptcha == "https://cdn.cloudflare.com/recaptcha/verify"

\* C3: the score computed on a miss is min(1, sum of the weights of the
\* categories the target matches), each category counted once; the target
\* "https://cdn.cloudflare.com/recaptcha/verify" scores 0.7 and gets the
\* fingerprint tier "standard", the TLS tier "chrome_latest" and the timing
\* (1000, 4000, 2000, true).
C3_MissScore ==
    /\ \A t \in DOMAIN domain_risk_cache :
         domain_risk_cache[t] = CategoryScore(t)
    /\ \A w \in Workers :
         risk_score[w] # None =>
            /\ risk_score[w] = CategoryScore(request[w].target)
            /\ request[w].target = ScenarioCdnCaptcha =>
                 /\ risk_score[w] = F64_0_7
                 /\ fingerprint_type[w] \in {NoType, "standard"}
                 /\ profile_type[w] \in {NoType, "chrome_latest"}
                 /\ timing_config[w] \in
                        {None, TimingConfig(1000, 4000, 2000, TRUE)}
                 /\ result[w].kind = "Ok" =>
                      /\ fingerprint_type[w] = "standard"
                      /\ result[w].value.fingerprint_id \in
                           {BrowserFingerprint("standard", g).id :
                               g \in 0..MaxRotations}
                      /\ result[w].value.tls_config = TLSProfile("chrome_latest")
                      /\ result[w].value.timing_config =
                             TimingConfig(1000, 4000, 2000, TRUE)

\* the scenario target was scored on a miss and its configuration returned
C3_Witness ==
    /\ pc[FirstWorker] = "done"
    /\ result[FirstWorker].kind = "Ok"
    /\ request[FirstWorker].target = ScenarioCdnCaptcha
    /\ heuristic_calls[ScenarioCdnCaptcha] = 1
    /\ risk_score[FirstWorker] = F64_0_7

\* C4: the tiers are chosen with strict comparisons: "stealth" iff
\* score > 0.7, "standard" iff 0.4 < score <= 0.7, "simple" iff
\* score <= 0.4; "chrome_latest" iff score > 0.6, else "firefox_standard".
\* So 0.7 gives "standard", 0.4 gives "simple", 0.6 gives "firefox_standard".
C4_StrictTiers ==
    \A w \in Workers :
        LET s  == risk_score[w]
            ft == fingerprint_type[w]
            pt == profile_type[w]
        IN  /\ ft # NoType =>
                 /\ ft = "stealth" <=> F64Gt(s, F64_0_7)
                 /\ ft = "standard" <=> (F64Gt(s, F64_0_4) /\ F64Le(s, F64_0_7))
                 /\ ft = "simple" <=> F64Le(s, F64_0_4)
                 /\ s = F64_0_7 => ft = "standard"
                 /\ s = F64_0_4 => ft = "simple"
            /\ pt # NoType =>
                 /\ pt = "chrome_latest" <=> F64Gt(s, F64_0_6)
                 /\ pt = "firefox_standard" <=> F64Le(s, F64_0_6)
                 /\ s = F64_0_6 => pt = "firefox_standard"

\* a target scored exactly 0.4 got the tiers "simple" and "firefox_standard"
C4_Witness ==
    /\ risk_score[FirstWorker] = F64_0_4
    /\ fingerprint_type[FirstWorker] = "simple"
    /\ profile_type[FirstWorker] = "firefox_standard"

\* select_proxy returns the pool entry of (1-based) position i
SelectsEntry(w, i) == select_proxy_body(w) /\ proxy_config'[w] = proxy_pool[i]

\* C5: select_proxy never fails and never reads past the pool: an empty pool
\* gives the descriptor {"direct", "direct", 300}; a non-empty pool gives
\* its first entry when score <= 0.5 and one of its entries when
\* score > 0.5, where every entry of the pool can be the one returned.
C5_SelectProxy ==
    \A w \in Workers :
        /\ result[w].kind # "Panic"
        /\ proxy_config[w] # None =>
             IF Len(proxy_pool) = 0 THEN proxy_config[w] = DirectProxy
             ELSE IF F64Le(risk_score[w], F64_0_5)
                  THEN proxy_config[w] = proxy_pool[1]
                  ELSE \E i \in 1..Len(proxy_pool) :
                          proxy_config[w] = proxy_pool[i]
        /\ (/\ pc[w] = "select_proxy_cs"
            /\ Len(proxy_pool) > 0
            /\ F64Gt(risk_score[w], F64_0_5)) =>
             \A i \in 1..Len(proxy_pool) : ENABLED SelectsEntry(w, i)

\* a high-risk request was given the last entry of a pool of two distinct ones
C5_Witness ==
    /\ Len(proxy_pool) = 2
    /\ proxy_pool[1] # proxy_pool[2]
    /\ pc[FirstWorker] = "configure_timing"
    /\ F64Gt(risk_score[FirstWorker], F64_0_5)
    /\ proxy_config[FirstWorker] = proxy_pool[2]

StageOrder == <<"score", "fingerprint", "tls", "proxy", "timing", "headers">>

FingerprintError == Err("No suitable fingerprint available")
TlsError == Err("No suitable TLS profile available")

\* C6: configure runs score, fingerprint, TLS, proxy, timing, headers in
\* that order and returns the first failure: with no record for the
\* selected fingerprint tier it returns the fingerprint error and the TLS,
\* proxy, timing and header stages never run (no TLS or proxy lock taken);
\* with a fingerprint but no TLS profile it returns the TLS error; a
\* configuration is returned only when both lookups succeed, and it is whole.
C6_FirstFailure ==
    \A w \in Workers :
        (request[w] # None /\ request[w].op = "configure") =>
            /\ stages[w] = SubSeq(StageOrder, 1, Len(stages[w]))
            /\ Len(stages[w]) < 3 =>
                 /\ w \notin tls_manager_lock.readers \cup tls_manager_lock.writers
                 /\ tls_config[w] = None
            /\ Len(stages[w]) < 4 =>
                 /\ w \notin proxy_pool_lock.readers \cup proxy_pool_lock.writers
                 /\ proxy_config[w] = None
            /\ (pc[w] = "done" /\ result[w].kind # "Panic") =>
                 IF GetFingerprint(fingerprint_type[w]) = None
                 THEN /\ result[w] = FingerprintError
                      /\ stages[w] = SubSeq(StageOrder, 1, 2)
                      /\ timing_config[w] = None /\ headers[w] = None
                 ELSE IF GetProfile(profile_type[w]) = None
                 THEN /\ result[w] = TlsError
                      /\ stages[w] = SubSeq(StageOrder, 1, 3)
                      /\ fingerprint[w] # None
                      /\ timing_config[w] = None /\ headers[w] = None
                 ELSE /\ result[w].kind = "Ok"
                      /\ stages[w] = StageOrder
                      /\ fingerprint[w] # None /\ tls_config[w] # None
                      /\ proxy_config[w] # None /\ timing_config[w] # None
                      /\ result[w].value =
                             SecurityConfiguration(headers[w], tls_config[w],
                                 proxy_config[w], timing_config[w],
                                 fingerprint[w])

\* a call found its fingerprint, found no TLS profile and returned the TLS error
C6_Witness ==
    /\ pc[FirstWorker] = "done"
    /\ result[FirstWorker] = TlsError
    /\ fingerprint[FirstWorker] # None
    /\ stages[FirstWorker] = <<"score", "fingerprint", "tls">>

\* the processes inside a fingerprint lookup, and inside a rotation
LookingUp == {w \in Workers : pc[w] \in {"select_fingerprint_cs",
                                          "get_fingerprint_cs"}}
Rotating == {p \in Procs : pc[p] \in {"rotate_cs", "task_cs"}}

\* C7: under any interleaving of configure calls, GET /fingerprint lookups
\* and manual and scheduled rotations, no lookup runs while a rotation is in
\* progress: a lookup sees the records of the last completed rotation, all
\* of the same generation, and no worker ever holds a record of a rotation
\* that has not completed.
C7_LookupSeesWholeRotation ==
    /\ LookingUp # {} =>
         /\ Rotating = {}
         /\ \A t \in FingerprintTypes :
              fingerprints[t] \in {None, BrowserFingerprint(t, generation)}
    /\ \A w \in Workers :
         fingerprint[w] # None =>
            \E t \in FingerprintTypes, g \in 0..generation :
                fingerprint[w] = BrowserFingerprint(t, g)

\* a lookup runs after a rotation has completed and sees the rotated record
C7_Witness ==
    \E w \in Workers :
        /\ pc[w] = "select_fingerprint_cs"
        /\ generation >= 1
        /\ GetFingerprint(FingerprintType(risk_score[w])) =
               BrowserFingerprint(FingerprintType(risk_score[w]), generation)

\* C8: at no time are two rotations in progress, be they manual, scheduled
\* or one of each: the one that has the write guard completes before
\* another one starts.
C8_RotationsExclusive ==
    /\ Cardinality(Rotating) <= 1
    /\ Rotating # {} =>
         /\ fingerprint_manager_lock.writers = Rotating
         /\ fingerprint_manager_lock.readers = {}
    /\ \A p \in Procs : rotate_progress[p] > 0 => p \in Rotating

\* the scheduled rotation is half done while a manual one waits for the lock
C8_Witness ==
    /\ pc[Scheduler] = "task_cs"
    /\ rotate_progress[Scheduler] = 1
    /\ \E w \in Workers : pc[w] = "rotate_fingerprints"

\* C9: a rotation that fails inside its critical section, manual or
\* scheduled, does not stop the scheduler: the rotation task keeps running.
C9_SchedulerSurvivesFailure ==
    fingerprint_manager_lock.poisoned => pc[Scheduler] # "dead"

ScenarioGovPath == "https://irs.gov/file"

\* C10: the target "https://irs.gov/file" is scored 0.5 and gets the
\* fingerprint tier "standard", the TLS tier "firefox_standard" and the
\* timing (1000, 4000, 2000, true).
C10_GovWithPath ==
    \A w \in Workers :
        (risk_score[w] # None /\ request[w].target = ScenarioGovPath) =>
            /\ risk_score[w] = F64_0_5
            /\ fingerprint_type[w] \in {NoType, "standard"}
            /\ profile_type[w] \in {NoType, "firefox_standard"}
            /\ timing_config[w] \in {None, TimingConfig(1000, 4000, 2000, TRUE)}

\* C11: with an empty proxy pool every configuration configure returns,
\* whatever the target and its score, carries the direct-connection
\* descriptor {"direct", "direct", 300}.
C11_EmptyPoolDirect ==
    \A w \in Workers :
        (/\ Len(proxy_pool) = 0
         /\ request[w] # None /\ request[w].op = "configure"
         /\ result[w].kind = "Ok") =>
            /\ result[w].value.proxy_config.proxy_url = "direct"
            /\ result[w].value.proxy_config.proxy_type = "direct"
            /\ result[w].value.proxy_config.rotation_interval = 300

\* a target of score 1.0 was configured with the direct descriptor
C11_Witness ==
    /\ Len(proxy_pool) = 0
    /\ pc[FirstWorker] = "done"
    /\ result[FirstWorker].kind = "Ok"
    /\ risk_score[FirstWorker] = F64_1_0
    /\ result[FirstWorker].value.proxy_config.proxy_url = "direct"

MandatoryHeaders == {"User-Agent", "Accept", "Accept-Language",
                     "Accept-Encoding", "DNT", "Connection",
                     "Upgrade-Insecure-Requests"}
SecFetchHeaders == {"Sec-Fetch-Dest", "Sec-Fetch-Mode", "Sec-Fetch-Site"}

\* build_headers returns a map of n entries
BuildsHeaders(w, n) ==
    build_headers(w) /\ Cardinality(DOMAIN headers'[w]) = n

\* C12: for every fingerprint and every outcome of the two random trials the
\* header map holds the 7 mandatory headers (five from the fingerprint,
\* Connection "keep-alive", Upgrade-Insecure-Requests "1"), all three
\* Sec-Fetch headers or none of them, possibly Cache-Control "max-age=0"
\* whatever the other trial gave, and nothing else: 7, 8, 10 or 11 entries.
C12_HeaderSet ==
    \A w \in Workers :
        /\ headers[w] # None =>
             LET h  == headers[w]
                 fp == fingerprint[w]
             IN  /\ MandatoryHeaders \subseteq DOMAIN h
                 /\ h["User-Agent"] = fp.user_agent
                 /\ h["Accept"] = fp.accept
                 /\ h["Accept-Language"] = fp.accept_language
                 /\ h["Accept-Encoding"] = fp.accept_encoding
                 /\ h["DNT"] = fp.dnt
                 /\ h["Connection"] = "keep-alive"
                 /\ h["Upgrade-Insecure-Requests"] = "1"
                 /\ \/ SecFetchHeaders \subseteq DOMAIN h
                    \/ SecFetchHeaders \cap DOMAIN h = {}
                 /\ "Sec-Fetch-Dest" \in DOMAIN h =>
                      /\ h["Sec-Fetch-Dest"] = "document"
                      /\ h["Sec-Fetch-Mode"] = "navigate"
                      /\ h["Sec-Fetch-Site"] = "none"
                 /\ "Cache-Control" \in DOMAIN h =>
                      h["Cache-Control"] = "max-age=0"
                 /\ DOMAIN h \subseteq
                      MandatoryHeaders \cup SecFetchHeaders \cup {"Cache-Control"}
                 /\ Cardinality(DOMAIN h) \in {7, 8, 10, 11}
        /\ pc[w] = "build_headers" =>
             \A n \in {7, 8, 10, 11} : ENABLED BuildsHeaders(w, n)

\* a map with the Sec-Fetch triplet and without Cache-Control was built
C12_Witness ==
    /\ headers[FirstWorker] # None
    /\ SecFetchHeaders \subseteq DOMAIN headers[FirstWorker]
    /\ "Cache-Control" \notin DOMAIN headers[FirstWorker]
    /\ Cardinality(DOMAIN headers[FirstWorker]) = 10

TimingBands == {TimingConfig(2000, 8000, 3000, TRUE),
                TimingConfig(1000, 4000, 2000, TRUE),
                TimingConfig(500, 2000, 1000, FALSE)}

\* C13: configure_timing returns (2000,8000,3000,true) when score > 0.7,
\* (1000,4000,2000,true) when 0.4 < score <= 0.7 and (500,2000,1000,false)
\* otherwise, and request_delay_min <= request_delay_max in each.
C13_TimingBands ==
    \A w \in Workers :
        timing_config[w] # None =>
            LET s == risk_score[w]
                t == timing_config[w]
            IN  /\ t \in TimingBands
                /\ t.request_delay_min <= t.request_delay_max
                /\ F64Gt(s, F64_0_7) => t = TimingConfig(2000, 8000, 3000, TRUE)
                /\ (F64Gt(s, F64_0_4) /\ F64Le(s, F64_0_7)) =>
                       t = TimingConfig(1000, 4000, 2000, TRUE)
                /\ F64Le(s, F64_0_4) => t = TimingConfig(500, 2000, 1000, FALSE)

\* a score above 0.7 was given the slow band
C13_Witness ==
    /\ timing_config[FirstWorker] = TimingConfig(2000, 8000, 3000, TRUE)
    /\ F64Gt(risk_score[FirstWorker], F64_0_7)
    /\ pc[FirstWorker] = "build_headers"

\* the workers inside the critical section of assess_target_risk
Assessing == {w \in Workers : pc[w] \in {"assess_check", "assess_compute"}}

\* C14: at any time at most one worker is inside the critical section of
\* assess_target_risk, whatever the targets and be the lookups hits or
\* misses: while one is inside no other worker is let in, so two cache hits
\* never run concurrently.
C14_LookupsSerialized ==
    /\ Cardinality(Assessing) <= 1
    /\ risk_assessor_lock.writers = Assessing
    /\ risk_assessor_lock.readers = {}
    /\ Assessing # {} =>
         \A w \in Workers : ~ ENABLED assess_target_risk_lock(w)

\* a hit is inside the critical section while another hit waits for the lock
C14_Witness ==
    \E v \in Workers, w \in Workers :
        /\ v # w
        /\ pc[v] = "assess_check"
        /\ request[v].target \in DOMAIN domain_risk_cache
        /\ pc[w] = "assess_target_risk"
        /\ request[w].target \in DOMAIN domain_risk_cache

\* C15: the risk cache only grows: an entry is created by the first lookup
\* of its target, and no step of any operation (configure, fingerprint
\* lookup, manual or scheduled rotation) removes an entry or changes its
\* value.
C15_CacheGrowsOnly ==
    [][ /\ \A t \in DOMAIN domain_risk_cache :
             /\ t \in DOMAIN domain_risk_cache'
             /\ domain_risk_cache'[t] = domain_risk_cache[t]
        /\ \A t \in DOMAIN domain_risk_cache' \ DOMAIN domain_risk_cache :
             /\ heuristic_calls[t] = 0
             /\ \E w \in Workers :
                  /\ pc[w] = "assess_compute"
                  /\ request[w].target = t ]_vars

\* both targets are cached, a rotation has completed and a later lookup of a
\* cached target is inside the critical section
C15_Witness ==
    /\ DOMAIN domain_risk_cache = Targets
    /\ generation >= 1
    /\ \E w \in Workers : pc[w] = "assess_check"

\* C16: a rotation that fails while it holds the fingerprint write lock
\* yields a local error and leaves the lock usable: the lock is never
\* poisoned and no call ends in a panic.
C16_LockUsableAfterFailure ==
    /\ ~ fingerprint_manager_lock.poisoned
    /\ \A w \in Workers : result[w] # None => result[w].kind \in {"Ok", "Err"}

\* a step of a configure call of worker w
ConfigureStep(w) ==
    \/ \E target \in Targets : configure_security_call(w, target)
    \/ /\ request[w] # None
       /\ request[w].op = "configure"
       /\ Pipeline(w)

\* C17: a step of a configure call changes no shared collection but the risk
\* cache, to which it may add the entry of its own target; the fingerprint
\* records, the TLS profiles and the detection patterns are left as they
\* are, and no step of any operation changes the proxy pool, which stays
\* empty.
C17_ConfigureFrame ==
    [][ /\ proxy_pool = <<>>
        /\ proxy_pool' = <<>>
        /\ \A w \in Workers :
             ConfigureStep(w) =>
                /\ UNCHANGED <<fingerprints, generation, profiles,
                               detection_patterns>>
                /\ \/ UNCHANGED domain_risk_cache
                   \/ /\ request[w].target \notin DOMAIN domain_risk_cache
                      /\ DOMAIN domain_risk_cache' =
                             DOMAIN domain_risk_cache \cup {request[w].target}
                      /\ \A t \in DOMAIN domain_risk_cache :
                             domain_risk_cache'[t] = domain_risk_cache[t] ]_vars

\* a configure call has run all its stages, its target's entry being the
\* second one of the cache, after a rotation has replaced the records
C17_Witness ==
    \E w \in Workers :
        /\ pc[w] = "done"
        /\ request[w].op = "configure"
        /\ result[w].kind = "Ok"
        /\ DOMAIN domain_risk_cache = Targets
        /\ generation >= 1
        /\ proxy_pool = <<>>

\* the locks process p holds
Held(p) ==
    {i \in 1..Len(locks) : p \in locks[i].readers \cup locks[i].writers}

\* C18: every process holds at most one lock at a time, no state is a
\* deadlock, and a configure call that ends returns a configuration or an
\* error.
C18_ConfigureReturns ==
    /\ \A p \in Procs : Cardinality(Held(p)) <= 1
    /\ Held(Scheduler) # {} <=> pc[Scheduler] = "task_cs"
    /\ ENABLED Next
    /\ \A w \in Workers :
         (pc[w] = "done" /\ request[w].op = "configure") =>
             result[w].kind \in {"Ok", "Err"}

\* C19: the User-Agent, Accept, Accept-Language, Accept-Encoding and DNT
\* headers and the fingerprint_id of a returned configuration are those of
\* one record, the one copied in the fingerprint stage, whatever rotation
\* replaced the records since; and the tiers of the configuration are those
\* of the one score of the first stage.
C19_OneRecordOneScore ==
    \A w \in Workers :
        (/\ request[w] # None /\ request[w].op = "configure"
         /\ result[w] # None /\ result[w].kind = "Ok") =>
            LET c == result[w].value
                s == risk_score[w]
            IN  /\ \E g \in 0..generation :
                     LET fp == BrowserFingerprint(fingerprint_type[w], g)
                     IN  /\ fingerprint[w] = fp
                         /\ c.fingerprint_id = fp.id
                         /\ c.headers["User-Agent"] = fp.user_agent
                         /\ c.headers["Accept"] = fp.accept
                         /\ c.headers["Accept-Language"] = fp.accept_language
                         /\ c.headers["Accept-Encoding"] = fp.accept_encoding
                         /\ c.headers["DNT"] = fp.dnt
                /\ s = domain_risk_cache[request[w].target]
                /\ fingerprint_type[w] = FingerprintType(s)
                /\ profile_type[w] = ProfileType(s)
                /\ c.tls_config = TLSProfile(ProfileType(s))
                /\ c.timing_config = Timing(s)

\* a configuration is returned with the record of before the rotation that
\* replaced the tier's record between the fingerprint and the header stage
C19_Witness ==
    \E w \in Workers :
        /\ pc[w] = "done"
        /\ request[w].op = "configure"
        /\ result[w].kind = "Ok"
        /\ fingerprint[w] = BrowserFingerprint(fingerprint_type[w], 0)
        /\ fingerprints[fingerprint_type[w]] =
               BrowserFingerprint(fingerprint_type[w], 1)

\* C20: when configure has failed for want of a fingerprint or TLS record,
\* the score of its target is in the cache and stays there: the call
\* submitted again is a cache hit, scored once, that gets the same score,
\* selects the same tiers and ends as the first one did.
C20_FailureKeepsScore ==
    /\ \A w \in Workers :
         (pc[w] = "done" /\ request[w].op = "configure"
            /\ result[w].kind = "Err") =>
             /\ request[w].target \in DOMAIN domain_risk_cache
             /\ domain_risk_cache[request[w].target] = risk_score[w]
    /\ \A t \in AllTargets :
         failed[t] # {} =>
             /\ t \in DOMAIN domain_risk_cache
             /\ heuristic_calls[t] = 1
             /\ Cardinality(failed[t]) = 1
             /\ \A f \in failed[t] :
                  /\ f.risk_score = domain_risk_cache[t]
                  /\ f.error \in {FingerprintError.value, TlsError.value}
                  /\ \A w \in Workers :
                       (request[w] # None /\ request[w].target = t) =>
                           /\ risk_score[w] \in {None, f.risk_score}
                           /\ fingerprint_type[w] \in {NoType, f.fingerprint_type}
                           /\ profile_type[w] \in {NoType, f.profile_type}
                           /\ (pc[w] = "done") => result[w] = Err(f.error)

\* the call submitted again after a failure has failed on the cached score
C20_Witness ==
    /\ pc[FirstWorker] = "done"
    /\ result[FirstWorker] = TlsError
    /\ failed[request[FirstWorker].target] # {}
    /\ heuristic_calls[request[FirstWorker].target] = 1

====
